---- MODULE Spec2Model ----
(***************************************************************************)
(* Model of the backtesting engine (backtester/backtest.py) and of the     *)
(* part of the metrics calculator (backtester/metrics.py) that a run uses. *)
(*                                                                         *)
(* Numbers.  Python floats are modelled as exact rationals.  Every money   *)
(* amount and price is an integer count of 1/Scale currency units, and     *)
(* slippage is an integer count of 1/Scale, so that                        *)
(*   price * (1 + slippage)  is  price * (Scale + slippage) \div Scale     *)
(* and is exact for the closes used (multiples of Scale).  Percentages     *)
(* that the code obtains by a division (pnl_pct, total_return,             *)
(* max_drawdown) are kept as a pair num/den and compared exactly.  The     *)
(* stop-loss fraction is an integer count of hundredths.  sharpe_ratio     *)
(* and sortino_ratio are kept by kind of value: zero, finite, inf, nan.    *)
(* Floating-point rounding is not modelled.                                *)
(*                                                                         *)
(* Indexing.  Sequences are 1-based: bar k of the model is the source's    *)
(* bar k-1, and i is the bar the loop processes next.                      *)
(***************************************************************************)
EXTENDS Integers, Sequences, FiniteSets, TLC

VARIABLES
    self,       \* the Backtester object: parameters and per-run state
    strategy,   \* the Strategy: should_use_stop_loss(), stop_loss_pct()
    data,       \* the price DataFrame: a sequence of [date, close]
    signals,    \* the Series strategy.generate_signals(data) returns
    i,          \* position of the for loop of run (next bar, 1-based)
    pc,         \* where run is: idle, loop, metrics, done, error
    result,     \* the BacktestResult run returns, NoResult before
    earlier,    \* the result the caller holds from the previous run of self
    other,      \* a run on a second Backtester instance, NoOther if none
    benchmark   \* the benchmark DataFrame given to run, NoBenchmark if None

vars == <<self, strategy, data, signals, i, pc, result, earlier, other,
          benchmark>>

-----------------------------------------------------------------------------
(* Units and bounds *)

\* Fixed-point resolution: 1/Scale is the default slippage 0.001.
Scale == 1000

\* entry_date of a flat engine (Python None); real dates are >= 1.
None == 0

\* Longest bar sequence explored.
MaxBars == 3

\* Closing prices: 100 -> 92 is exactly the 8% trailing stop, 110 a gain.
Closes == {92 * Scale, 100 * Scale, 110 * Scale}

\* Signal values a strategy may emit: SELL, HOLD, BUY and a malformed one.
SignalValues == {-1, 0, 1, 2}

\* Constructor arguments (initial_cash, commission, slippage) explored.  The
\* last one pays for one share at 92 and for none at 100 or 110.
Configs ==
    { [initial_cash |-> 10000 * Scale, commission |-> 0,     slippage |-> 0],
      [initial_cash |-> 10000 * Scale, commission |-> Scale, slippage |-> 1],
      [initial_cash |-> 50 * Scale,    commission |-> 0,     slippage |-> 0],
      [initial_cash |-> 100 * Scale,   commission |-> Scale, slippage |-> 1] }

\* Strategies: the base class (no stop), the default 8% trailing stop, and a
\* 10% stop, under which the fall 100 -> 92 does not trigger.
Strategies ==
    { [use_stop |-> FALSE, stop_loss_pct |-> 8],
      [use_stop |-> TRUE,  stop_loss_pct |-> 8],
      [use_stop |-> TRUE,  stop_loss_pct |-> 10] }

NoResult == [kind |-> "none"]

\* No second instance: compare_strategies has not constructed one.
NoOther == [pc |-> "absent"]

\* benchmark=None, the default of run.
NoBenchmark == [supplied |-> FALSE, bars |-> <<>>]

-----------------------------------------------------------------------------
(* Arithmetic helpers *)

\* Python max(a, b).
Max(a, b) == IF a >= b THEN a ELSE b

\* Python int(a / b) for b > 0: truncation toward zero.
IntDiv(a, b) == IF a >= 0 THEN a \div b ELSE -((-a) \div b)

\* A quotient num/den the code computes in floating point, kept exact.
Ratio(num, den) == [num |-> num, den |-> den]

-----------------------------------------------------------------------------
(* Backtester *)

\* Backtester.__init__: the object right after construction.
Backtester(cfg) ==
    [ initial_cash  |-> cfg.initial_cash,
      commission    |-> cfg.commission,
      slippage      |-> cfg.slippage,
      cash          |-> cfg.initial_cash,
      position      |-> 0,
      entry_price   |-> 0,
      entry_date    |-> None,
      highest_price |-> 0,
      trades        |-> <<>>,
      equity_curve  |-> <<>>,
      sells         |-> 0 ]   \* observation only: sell orders executed

\* Variant of _reset: the ledger and the curve of the last run are kept.
_reset_KeepsLedger(e) ==
    [ e EXCEPT !.cash          = e.initial_cash,
               !.position      = 0,
               !.entry_price   = 0,
               !.entry_date    = None,
               !.highest_price = 0,
               !.sells         = 0 ]

\* Backtester._reset
_reset(e) ==
    [ e EXCEPT !.cash          = e.initial_cash,
               !.position      = 0,
               !.entry_price   = 0,
               !.entry_date    = None,
               !.highest_price = 0,
               !.trades        = <<>>,
               !.equity_curve  = <<>>,
               !.sells         = 0 ]

\* fill price of a buy: price * (1 + slippage)
BuyFill(e, price) == (price * (Scale + e.slippage)) \div Scale

\* fill price of a sell: price * (1 - slippage)
\* Variant of SellFill: slippage added to the sale price instead of taken off.
SellFill_Plus(e, price) == (price * (Scale + e.slippage)) \div Scale

SellFill(e, price) == (price * (Scale - e.slippage)) \div Scale

\* shares = int(available / fill_price)
BuyShares(e, price) == IntDiv(e.cash - e.commission, BuyFill(e, price))

\* Variant of _buy: the commission is charged before the share test.
_buy_ChargesOnNoop(e, date, price) ==
    LET fill_price == BuyFill(e, price)
        shares     == BuyShares(e, price)
    IN  IF shares <= 0
        THEN [ e EXCEPT !.cash = e.cash - e.commission ]
        ELSE [ e EXCEPT !.cash          = e.cash - (shares * fill_price + e.commission),
                        !.position      = shares,
                        !.entry_price   = fill_price,
                        !.entry_date    = date,
                        !.highest_price = price ]

\* Variant of _buy: the cost leaves the commission out.
_buy_NoCommission(e, date, price) ==
    LET fill_price == BuyFill(e, price)
        shares     == BuyShares(e, price)
    IN  IF shares <= 0
        THEN e
        ELSE [ e EXCEPT !.cash          = e.cash - shares * fill_price,
                        !.position      = shares,
                        !.entry_price   = fill_price,
                        !.entry_date    = date,
                        !.highest_price = price ]

\* Variant of _buy: the trailing stop is seeded with the fill price.
_buy_SeedsFill(e, date, price) ==
    LET fill_price == BuyFill(e, price)
        shares     == BuyShares(e, price)
        cost       == shares * fill_price + e.commission
    IN  IF shares <= 0
        THEN e
        ELSE [ e EXCEPT !.cash          = e.cash - cost,
                        !.position      = shares,
                        !.entry_price   = fill_price,
                        !.entry_date    = date,
                        !.highest_price = fill_price ]

\* Backtester._buy
_buy(e, date, price) ==
    LET fill_price == BuyFill(e, price)
        shares     == BuyShares(e, price)
        cost       == shares * fill_price + e.commission
    IN  IF shares <= 0
        THEN e
        ELSE [ e EXCEPT !.cash          = e.cash - cost,
                        !.position      = shares,
                        !.entry_price   = fill_price,
                        !.entry_date    = date,
                        !.highest_price = price ]

\* Variant of Trade: pnl per share, not multiplied by the position.
Trade_PnlPerShare(e, date, fill_price, reason) ==
    [ entry_date  |-> e.entry_date,
      exit_date   |-> date,
      entry_price |-> e.entry_price,
      exit_price  |-> fill_price,
      shares      |-> e.position,
      pnl         |-> fill_price - e.entry_price,
      pnl_pct     |-> Ratio((fill_price - e.entry_price) * 100, e.entry_price),
      exit_reason |-> reason ]

\* Variant of Trade: pnl net of the two commissions.
Trade_PnlNet(e, date, fill_price, reason) ==
    [ entry_date  |-> e.entry_date,
      exit_date   |-> date,
      entry_price |-> e.entry_price,
      exit_price  |-> fill_price,
      shares      |-> e.position,
      pnl         |-> (fill_price - e.entry_price) * e.position
                          - 2 * e.commission,
      pnl_pct     |-> Ratio((fill_price - e.entry_price) * 100, e.entry_price),
      exit_reason |-> reason ]

\* The Trade record _sell builds.
Trade(e, date, fill_price, reason) ==
    [ entry_date  |-> e.entry_date,
      exit_date   |-> date,
      entry_price |-> e.entry_price,
      exit_price  |-> fill_price,
      shares      |-> e.position,
      pnl         |-> (fill_price - e.entry_price) * e.position,
      pnl_pct     |-> Ratio((fill_price - e.entry_price) * 100, e.entry_price),
      exit_reason |-> reason ]

\* Variant of _sell: the proceeds leave the commission out.
_sell_NoCommission(e, date, price, reason) ==
    LET fill_price == SellFill(e, price)
    IN  IF e.position <= 0
        THEN e
        ELSE [ e EXCEPT !.cash          = e.cash + e.position * fill_price,
                        !.trades        = Append(e.trades,
                                                 Trade(e, date, fill_price, reason)),
                        !.position      = 0,
                        !.entry_price   = 0,
                        !.entry_date    = None,
                        !.highest_price = 0,
                        !.sells         = e.sells + 1 ]

\* Variant of _sell: without the "if self.position <= 0: return" guard.
_sell_NoGuard(e, date, price, reason) ==
    LET fill_price == SellFill(e, price)
        proceeds   == e.position * fill_price - e.commission
    IN  [ e EXCEPT !.cash          = e.cash + proceeds,
                   !.trades        = Append(e.trades,
                                            Trade(e, date, fill_price, reason)),
                   !.position      = 0,
                   !.entry_price   = 0,
                   !.entry_date    = None,
                   !.highest_price = 0,
                   !.sells         = e.sells + 1 ]

\* Variant of _sell: a stop-loss exit is not appended to the ledger.
_sell_StopNotRecorded(e, date, price, reason) ==
    LET fill_price == SellFill(e, price)
        proceeds   == e.position * fill_price - e.commission
    IN  IF e.position <= 0
        THEN e
        ELSE [ e EXCEPT !.cash          = e.cash + proceeds,
                        !.trades        = IF reason = "stop_loss"
                                          THEN e.trades
                                          ELSE Append(e.trades,
                                                 Trade(e, date, fill_price, reason)),
                        !.position      = 0,
                        !.entry_price   = 0,
                        !.entry_date    = None,
                        !.highest_price = 0,
                        !.sells         = e.sells + 1 ]

\* Backtester._sell
_sell(e, date, price, reason) ==
    LET fill_price == SellFill(e, price)
        proceeds   == e.position * fill_price - e.commission
    IN  IF e.position <= 0
        THEN e
        ELSE [ e EXCEPT !.cash          = e.cash + proceeds,
                        !.trades        = Append(e.trades,
                                                 Trade(e, date, fill_price, reason)),
                        !.position      = 0,
                        !.entry_price   = 0,
                        !.entry_date    = None,
                        !.highest_price = 0,
                        !.sells         = e.sells + 1 ]

\* Backtester._record_equity
_record_equity(e, date, current_price) ==
    [ e EXCEPT !.equity_curve =
          Append(e.equity_curve,
                 [date |-> date, equity |-> e.cash + e.position * current_price]) ]

\* run, lines 153-155: track the highest close while a position is open.
TrackHighest(e, current_price) ==
    IF e.position > 0
    THEN [e EXCEPT !.highest_price = Max(e.highest_price, current_price)]
    ELSE e

\* run, lines 158-161: the stop-loss test, after the highest close is updated.
\* current_price <= highest_price * (1 - stop_loss_pct), in hundredths.
StopTriggered(e, strat, current_price) ==
    /\ e.position > 0
    /\ strat.use_stop
    /\ current_price * 100 <= e.highest_price * (100 - strat.stop_loss_pct)

\* Variant of ProcessSignal: the BUY branch without "and self.position == 0".
ProcessSignal_Pyramid(e, signal, date, current_price) ==
    IF signal = 1
    THEN _buy(e, date, current_price)
    ELSE IF signal = -1 /\ e.position > 0
         THEN _sell(e, date, current_price, "signal")
         ELSE e

\* Variant of ProcessSignal: the BUY branch tests "signal != -1".
ProcessSignal_HoldBuys(e, signal, date, current_price) ==
    IF signal # -1 /\ e.position = 0
    THEN _buy(e, date, current_price)
    ELSE IF signal = -1 /\ e.position > 0
         THEN _sell(e, date, current_price, "signal")
         ELSE e

\* Variant of ProcessSignal: the BUY branch tests "signal > 0".
ProcessSignal_Positive(e, signal, date, current_price) ==
    IF signal > 0 /\ e.position = 0
    THEN _buy(e, date, current_price)
    ELSE IF signal = -1 /\ e.position > 0
         THEN _sell(e, date, current_price, "signal")
         ELSE e

\* run, lines 168-175: act on the day's signal.
ProcessSignal(e, signal, date, current_price) ==
    IF signal = 1 /\ e.position = 0
    THEN _buy(e, date, current_price)
    ELSE IF signal = -1 /\ e.position > 0
         THEN _sell(e, date, current_price, "signal")
         ELSE e

\* Variant of Bar: the stop-loss branch without its "continue".
Bar_NoContinue(e, strat, date, current_price, signal) ==
    LET e1 == TrackHighest(e, current_price)
        e2 == IF StopTriggered(e1, strat, current_price)
              THEN _sell(e1, date, current_price, "stop_loss")
              ELSE e1
    IN  _record_equity(ProcessSignal(e2, signal, date, current_price),
                       date, current_price)

\* Variant of Bar: the stop-loss branch without its _record_equity call.
Bar_StopNoEquity(e, strat, date, current_price, signal) ==
    LET e1 == TrackHighest(e, current_price)
    IN  IF StopTriggered(e1, strat, current_price)
        THEN _sell(e1, date, current_price, "stop_loss")
        ELSE _record_equity(ProcessSignal(e1, signal, date, current_price),
                            date, current_price)

\* Variant of Bar: the stop-loss check comes after the signal is processed.
Bar_StopAfterSignal(e, strat, date, current_price, signal) ==
    LET e1 == TrackHighest(ProcessSignal(e, signal, date, current_price),
                           current_price)
    IN  IF StopTriggered(e1, strat, current_price)
        THEN _record_equity(_sell(e1, date, current_price, "stop_loss"),
                            date, current_price)
        ELSE _record_equity(e1, date, current_price)

\* run, lines 151-178: the body of the loop for one bar.
Bar(e, strat, date, current_price, signal) ==
    LET e1 == TrackHighest(e, current_price)
    IN  IF StopTriggered(e1, strat, current_price)
        THEN _record_equity(_sell(e1, date, current_price, "stop_loss"),
                            date, current_price)
        ELSE _record_equity(ProcessSignal(e1, signal, date, current_price),
                            date, current_price)

\* Variant of CloseAtEnd: the final close is left out.
CloseAtEnd_Skip(e, d) == e

\* run, lines 183-186: close any open position at the end of the data.
CloseAtEnd(e, d) ==
    IF e.position > 0
    THEN _sell(e, d[Len(d)].date, d[Len(d)].close, "end_of_data")
    ELSE e

-----------------------------------------------------------------------------
(* Metrics *)

\* metrics.total_return: ((last / first) - 1) * 100 of a non-empty curve.
total_return(equity_curve) ==
    LET first == equity_curve[1].equity
        last  == equity_curve[Len(equity_curve)].equity
    IN  Ratio((last - first) * 100, first)

\* a/b < c/d for a, c >= 0 and b, d > 0, compared exactly by integer parts
\* and then the inverted remainders, so that no product is formed.
RECURSIVE FracLess(_, _, _, _)
FracLess(a, b, c, d) ==
    LET qa == a \div b
        qc == c \div d
        ra == a % b
        rc == c % d
    IN  IF qa # qc THEN qa < qc
        ELSE IF rc = 0 THEN FALSE
        ELSE IF ra = 0 THEN TRUE
        ELSE \E x \in {ra}, y \in {rc} : FracLess(d, y, b, x)

\* equity_curve.expanding().max() at position k.
rolling_max(equity_curve, k) ==
    CHOOSE m \in {equity_curve[j].equity : j \in 1..k} :
        \A j \in 1..k : equity_curve[j].equity <= m

\* The scan of the curve after its first position, which is its own peak:
\* the running peak, the deepest drawdown seen (depth below its peak
\* dd_peak), the current and the longest run of underwater positions.
FirstPoint(equity_curve) ==
    [ peak     |-> equity_curve[1].equity,
      depth    |-> 0,
      dd_peak  |-> equity_curve[1].equity,
      run      |-> 0,
      duration |-> 0 ]

\* The scan after one more position, of equity eq.  With shallow = TRUE it
\* keeps the shallowest drawdown instead of the deepest.
DrawdownStep(acc, eq, shallow) ==
    LET peak   == Max(acc.peak, eq)
        depth  == peak - eq
        run    == IF depth > 0 THEN acc.run + 1 ELSE 0
        deeper == IF shallow
                  THEN FracLess(depth, peak, acc.depth, acc.dd_peak)
                  ELSE FracLess(acc.depth, acc.dd_peak, depth, peak)
    IN  [ peak     |-> peak,
          depth    |-> IF deeper THEN depth ELSE acc.depth,
          dd_peak  |-> IF deeper THEN peak ELSE acc.dd_peak,
          run      |-> run,
          duration |-> Max(acc.duration, run) ]

\* The scan of positions 1..k of the curve.  (The scan of 1..k-1 is bound
\* by a set constructor so that it is evaluated once.)
RECURSIVE DrawdownScan(_, _, _)
DrawdownScan(equity_curve, k, shallow) ==
    IF k = 1 THEN FirstPoint(equity_curve)
    ELSE CHOOSE next \in
             { DrawdownStep(acc, equity_curve[k].equity, shallow) :
                   acc \in {DrawdownScan(equity_curve, k - 1, shallow)} } : TRUE

\* Variant of max_drawdown: takes drawdowns.max(), the shallowest point.
max_drawdown_Shallowest(equity_curve) ==
    CHOOSE r \in
        { [ max_dd   |-> Ratio(-acc.depth * 100, acc.dd_peak),
            duration |-> acc.duration ] :
              acc \in {DrawdownScan(equity_curve, Len(equity_curve), TRUE)} } : TRUE

\* metrics.max_drawdown of a non-empty curve with a positive first point:
\* max_dd is drawdowns.min() * 100 with drawdowns = (equity - rolling_max) /
\* rolling_max, duration the longest run of consecutive underwater points.
max_drawdown(equity_curve) ==
    CHOOSE r \in
        { [ max_dd   |-> Ratio(-acc.depth * 100, acc.dd_peak),
            duration |-> acc.duration ] :
              acc \in {DrawdownScan(equity_curve, Len(equity_curve), FALSE)} } : TRUE

\* equity_curve.pct_change().dropna(): the Len - 1 bar-over-bar returns.
pct_change(equity_curve) ==
    [ k \in 1..(Len(equity_curve) - 1) |->
        Ratio(equity_curve[k + 1].equity - equity_curve[k].equity,
              equity_curve[k].equity) ]

\* Two returns over positive bases are the same number.
SameReturn(a, b) ==
    /\ (a.num < 0) = (b.num < 0)
    /\ LET x == IF a.num < 0 THEN -a.num ELSE a.num
           y == IF b.num < 0 THEN -b.num ELSE b.num
       IN  ~FracLess(x, a.den, y, b.den) /\ ~FracLess(y, b.den, x, a.den)

\* Series.std() (ddof = 1) by kind: NaN for fewer than two values, 0 when all
\* values are the same, positive otherwise.
std(values) ==
    IF Len(values) < 2 THEN "nan"
    ELSE IF \A k \in 1..Len(values) : SameReturn(values[k], values[1])
         THEN "zero"
         ELSE "positive"

\* metrics.sharpe_ratio by kind of result.  A NaN volatility is not == 0,
\* so the division goes ahead and its result is NaN.
sharpe_ratio(returns) ==
    LET annual_vol == std(returns)
    IN  IF annual_vol = "zero" THEN "zero"
        ELSE IF annual_vol = "nan" THEN "nan"
        ELSE "finite"

\* metrics.sortino_ratio by kind of result.
sortino_ratio(returns) ==
    LET negative_returns == SelectSeq(returns, LAMBDA r : r.num < 0)
        downside_vol == std(negative_returns)
    IN  IF Len(negative_returns) = 0 THEN "inf"
        ELSE IF downside_vol = "zero" THEN "zero"
        ELSE IF downside_vol = "nan" THEN "nan"
        ELSE "finite"

\* The pnl_pct column of the trades.
pnl_pcts(trades) == [k \in 1..Len(trades) |-> trades[k].pnl_pct]

\* metrics.analyze_trades, the profit factor.  A sum of percentages is kept
\* as the sequence of its terms: winners are all > 0, so gross_profit > 0
\* exactly when there is a winner; losers are all <= 0, so the absolute
\* value of their sum is > 0 exactly when one of them is < 0.  The result is
\* 0.0 for no trades and when gross_loss is not > 0, and otherwise the
\* quotient of gross_profit by gross_loss, gross_loss being the constant
\* 0.001 (floor) when there is no loser.
profit_factor(trades) ==
    LET winners == SelectSeq(pnl_pcts(trades), LAMBDA r : r.num > 0)
        losers  == SelectSeq(pnl_pcts(trades), LAMBDA r : r.num <= 0)
        gross_loss_positive ==
            IF Len(losers) > 0
            THEN \E k \in 1..Len(losers) : losers[k].num < 0
            ELSE TRUE
    IN  IF Len(trades) = 0 \/ ~gross_loss_positive
        THEN [ kind |-> "zero", gross_profit |-> <<>>,
               gross_loss |-> <<>>, floor |-> FALSE ]
        ELSE [ kind         |-> "quotient",
               gross_profit |-> winners,
               gross_loss   |-> losers,
               floor        |-> Len(losers) = 0 ]

\* run, lines 214-218: the benchmark curve handed to calculate_metrics.  Each
\* value is close / close.iloc[0] * initial_cash, kept as the quotient
\* close / close.iloc[0], in units of initial_cash; the curve is then cut to
\* the labels from the first to the last date of the equity curve, both
\* included.  iloc[0] of an empty column and index[0] of an empty equity
\* curve raise IndexError.
benchmark_curve(bm, equity_curve) ==
    IF ~bm.supplied
    THEN [ kind |-> "None", points |-> <<>> ]
    ELSE IF Len(bm.bars) = 0 \/ Len(equity_curve) = 0
    THEN [ kind |-> "IndexError", points |-> <<>> ]
    ELSE LET scaled == [k \in 1..Len(bm.bars) |->
                           [ date  |-> bm.bars[k].date,
                             value |-> Ratio(bm.bars[k].close,
                                             bm.bars[1].close) ]]
             first  == equity_curve[1].date
             last   == equity_curve[Len(equity_curve)].date
         IN  [ kind   |-> "Series",
               points |-> SelectSeq(scaled, LAMBDA p :
                                       first <= p.date /\ p.date <= last) ]

\* metrics.total_return of a benchmark curve: the values are closes times
\* the common factor initial_cash / close.iloc[0], which cancels in
\* last / first.
benchmark_total_return(curve) ==
    LET first == curve[1].value.num
        last  == curve[Len(curve)].value.num
    IN  Ratio((last - first) * 100, first)

\* Variant of calculate_metrics: an empty curve gives degenerate metrics.
calculate_metrics_Degenerate(equity_curve, trades, bench) ==
    [ kind         |-> "BacktestMetrics",
      total_return |-> IF Len(equity_curve) = 0
                       THEN Ratio(0, 1)
                       ELSE total_return(equity_curve),
      total_trades |-> Len(trades),
      trading_days |-> Len(equity_curve) ]

\* metrics.calculate_metrics, as far as run's result is concerned.  On an
\* empty Series total_return's equity_curve.iloc[-1] raises IndexError.
calculate_metrics(equity_curve, trades, bench) ==
    IF \/ Len(equity_curve) = 0
       \/ bench.kind = "Series" /\ Len(bench.points) = 0
    THEN [ kind |-> "IndexError" ]
    ELSE CHOOSE m \in
             { [ kind         |-> "BacktestMetrics",
                 total_return |-> total_return(equity_curve),
                 max_drawdown |-> dd.max_dd,
                 max_drawdown_duration |-> dd.duration,
                 sharpe_ratio |-> sharpe_ratio(returns),
                 sortino_ratio |-> sortino_ratio(returns),
                 profit_factor |-> profit_factor(trades),
                 benchmark_return |->
                     IF bench.kind = "Series"
                     THEN benchmark_total_return(bench.points)
                     ELSE Ratio(0, 1),
                 excess_return |->
                     IF bench.kind = "Series"
                     THEN [ kind       |-> "difference",
                            minuend    |-> total_return(equity_curve),
                            subtrahend |-> benchmark_total_return(bench.points) ]
                     ELSE [ kind       |-> "zero",
                            minuend    |-> Ratio(0, 1),
                            subtrahend |-> Ratio(0, 1) ],
                 total_trades |-> Len(trades),
                 trading_days |-> Len(equity_curve) ] :
                   returns \in {pct_change(equity_curve)},
                   dd \in {max_drawdown(equity_curve)} } : TRUE

-----------------------------------------------------------------------------
(* Inputs *)

\* Bars with strictly increasing dates 1..n and any closes.
SortedBars(n) ==
    { [k \in 1..n |-> [date |-> k, close |-> c[k]]] : c \in [1..n -> Closes] }

\* Signal sequences of length n.
SignalSeqs(n) == [1..n -> SignalValues]

-----------------------------------------------------------------------------
(* Specification: valid input (aligned signals, sorted bars) *)

Init ==
    /\ \E cfg \in Configs : self = Backtester(cfg)
    /\ strategy \in Strategies
    /\ \E n \in 0..MaxBars :
          /\ data \in SortedBars(n)
          /\ signals \in SignalSeqs(n)
    /\ i = 1
    /\ pc = "idle"
    /\ result = NoResult
    /\ earlier = NoResult
    /\ other = NoOther
    /\ benchmark = NoBenchmark

\* Variant of Held: _reset empties the list in place (self.trades.clear()),
\* and with it the list of the result returned before.
Held_Cleared(r) ==
    IF r.kind = "BacktestResult" THEN [r EXCEPT !.trades = <<>>] ELSE r

\* The BacktestResult the caller holds from the previous run, after _reset.
\* Its trades field is the list object self.trades was bound to (line 227);
\* _reset binds self.trades to a new list (line 239) and leaves that object
\* as it is.  Its equity_curve is a Series built for the result.
Held(r) == r

\* run, lines 137-144: reset, then ask the strategy for its signals.
RunStart ==
    /\ pc = "idle"
    /\ self' = _reset(self)
    /\ earlier' = Held(earlier)
    /\ i' = 1
    /\ pc' = "loop"
    /\ UNCHANGED <<strategy, data, signals, result, other, benchmark>>

\* Variant of CurrentRow: the close is the one of the next row, if any.
CurrentRow_Next(d, k) ==
    IF k < Len(d) THEN [date |-> d[k].date, close |-> d[k + 1].close]
    ELSE d[k]

\* for i, (date, row) in enumerate(data.iterrows()): the row of iteration k.
CurrentRow(d, k) == d[k]

\* Variant of BarStep: after a stop-loss exit the loop does not move on to
\* the next row.
BarStep_RepeatsOnStop ==
    /\ pc = "loop"
    /\ i <= Len(data)
    /\ IF i > Len(signals)
       THEN /\ pc' = "error"
            /\ UNCHANGED <<self, i>>
       ELSE /\ LET row == CurrentRow(data, i)
               IN  /\ self' = Bar(self, strategy, row.date, row.close, signals[i])
                   /\ i' = IF StopTriggered(TrackHighest(self, row.close),
                                            strategy, row.close)
                           THEN i ELSE i + 1
            /\ pc' = "loop"
    /\ UNCHANGED <<strategy, data, signals, result, earlier, other, benchmark>>

\* run, lines 149-178: one iteration of the loop.  signals.iloc[i] comes
\* first and raises IndexError when the Series is shorter than the data.
BarStep ==
    /\ pc = "loop"
    /\ i <= Len(data)
    /\ IF i > Len(signals)
       THEN /\ pc' = "error"
            /\ UNCHANGED <<self, i>>
       ELSE /\ LET row == CurrentRow(data, i)
               IN  self' = Bar(self, strategy, row.date, row.close, signals[i])
            /\ i' = i + 1
            /\ pc' = "loop"
    /\ UNCHANGED <<strategy, data, signals, result, earlier, other, benchmark>>

\* run, lines 180-186: the loop is over; close what is still open.
LoopExit ==
    /\ pc = "loop"
    /\ i > Len(data)
    /\ self' = CloseAtEnd(self, data)
    /\ pc' = "metrics"
    /\ UNCHANGED <<strategy, data, signals, i, result, earlier, other, benchmark>>

\* run, lines 188-230: compute the metrics and return the BacktestResult.
ReturnResult ==
    /\ pc = "metrics"
    /\ \E metrics \in
           { IF bench.kind = "IndexError"
             THEN [ kind |-> "IndexError" ]
             ELSE calculate_metrics(self.equity_curve, self.trades, bench) :
                 bench \in {benchmark_curve(benchmark, self.equity_curve)} } :
           IF metrics.kind = "IndexError"
           THEN /\ pc' = "error"
                /\ result' = result
           ELSE /\ pc' = "done"
                /\ result' = [ kind         |-> "BacktestResult",
                               equity_curve |-> self.equity_curve,
                               trades       |-> self.trades,
                               metrics      |-> metrics ]
    /\ UNCHANGED <<self, strategy, data, signals, i, earlier, other, benchmark>>

Next == RunStart \/ BarStep \/ LoopExit \/ ReturnResult

Spec == Init /\ [][Next]_vars

-----------------------------------------------------------------------------
(* A run as a function of its inputs *)

\* The constructor arguments of an engine.
Params(e) ==
    [ initial_cash |-> e.initial_cash,
      commission   |-> e.commission,
      slippage     |-> e.slippage ]

\* The loop of run from iteration k on, for signals as long as the data.
RECURSIVE RunBars(_, _, _, _, _)
RunBars(e, strat, d, sig, k) ==
    IF k > Len(d) THEN e
    ELSE LET row == CurrentRow(d, k)
         IN  RunBars(Bar(e, strat, row.date, row.close, sig[k]),
                     strat, d, sig, k + 1)

\* The engine after run(strat, d) on a newly constructed Backtester(cfg).
FreshRun(cfg, strat, d, sig) ==
    CloseAtEnd(RunBars(_reset(Backtester(cfg)), strat, d, sig, 1), d)

-----------------------------------------------------------------------------
(* Specification: one engine, run again and again.  After a run has        *)
(* returned or failed, the caller keeps the result and calls run on the    *)
(* same engine with new inputs.                                            *)

MaxShortBars == 2
ShortCloses == {92 * Scale, 100 * Scale}
ShortSignalValues == {-1, 0, 1}
ShortStrategies ==
    { [use_stop |-> FALSE, stop_loss_pct |-> 8],
      [use_stop |-> TRUE,  stop_loss_pct |-> 8] }

\* Inputs of a short run: bars dated 1..n and aligned signals.
ShortBars(n) ==
    { [k \in 1..n |-> [date |-> k, close |-> c[k]]] : c \in [1..n -> ShortCloses] }

InitReuse ==
    /\ self = Backtester([initial_cash |-> 10000 * Scale,
                          commission |-> Scale, slippage |-> 1])
    /\ strategy \in ShortStrategies
    /\ \E n \in 0..MaxShortBars :
          /\ data \in ShortBars(n)
          /\ signals \in [1..n -> ShortSignalValues]
    /\ i = 1
    /\ pc = "idle"
    /\ result = NoResult
    /\ earlier = NoResult
    /\ other = NoOther
    /\ benchmark = NoBenchmark

\* The caller calls run on the used engine: new strategy and data, the
\* returned result kept.  The caller holds one earlier result at most, so a
\* further call follows only a run that returned none.
CallAgain ==
    /\ pc \in {"done", "error"}
    /\ earlier = NoResult
    /\ strategy' \in ShortStrategies
    /\ \E n \in 0..MaxShortBars :
          /\ data' \in ShortBars(n)
          /\ signals' \in [1..n -> ShortSignalValues]
    /\ earlier' = result
    /\ result' = NoResult
    /\ i' = 1
    /\ pc' = "idle"
    /\ UNCHANGED <<self, other, benchmark>>

NextReuse == Next \/ CallAgain

SpecReuse == InitReuse /\ [][NextReuse]_vars

-----------------------------------------------------------------------------
(* Specification: a run that keeps going.  run is sequential code with no  *)
(* blocking call: a step that can be taken is taken.                       *)

InitTerm ==
    /\ self = Backtester([initial_cash |-> 10000 * Scale,
                          commission |-> Scale, slippage |-> 1])
    /\ strategy \in {s \in ShortStrategies : ~s.use_stop}
    /\ data = <<>>
    /\ signals = <<>>
    /\ i = 1
    /\ pc = "caller"
    /\ result = NoResult
    /\ earlier = NoResult
    /\ other = NoOther
    /\ benchmark = NoBenchmark

\* The caller picks the strategy and the data and calls run.
Call ==
    /\ pc = "caller"
    /\ strategy' \in ShortStrategies
    /\ \E n \in 0..MaxBars :
          /\ data' \in ShortBars(n)
          /\ signals' \in [1..n -> ShortSignalValues]
    /\ pc' = "idle"
    /\ UNCHANGED <<self, i, result, earlier, other, benchmark>>

NextTerm == Call \/ Next

SpecTerm == InitTerm /\ [][NextTerm]_vars /\ WF_vars(NextTerm)

-----------------------------------------------------------------------------
(* Specification: two engines.  compare_strategies constructs one          *)
(* Backtester per strategy over the same data; here the steps of the two   *)
(* runs are taken in any order.                                            *)

\* The run on self, as one record.
ThisRun ==
    [ self |-> self, strategy |-> strategy, data |-> data,
      signals |-> signals, i |-> i, pc |-> pc, result |-> result ]

\* One step of run on the engine of r: what RunStart, BarStep, LoopExit and
\* ReturnResult do, on a record.
RunStep(r) ==
    CASE r.pc = "idle" ->
            [r EXCEPT !.self = _reset(r.self), !.i = 1, !.pc = "loop"]
      [] r.pc = "loop" /\ r.i <= Len(r.data) ->
            IF r.i > Len(r.signals)
            THEN [r EXCEPT !.pc = "error"]
            ELSE LET row == CurrentRow(r.data, r.i)
                 IN  [r EXCEPT !.self = Bar(r.self, r.strategy, row.date,
                                            row.close, r.signals[r.i]),
                               !.i = r.i + 1]
      [] r.pc = "loop" /\ r.i > Len(r.data) ->
            [r EXCEPT !.self = CloseAtEnd(r.self, r.data), !.pc = "metrics"]
      [] r.pc = "metrics" ->
            CHOOSE next \in
                { IF metrics.kind = "IndexError"
                  THEN [r EXCEPT !.pc = "error"]
                  ELSE [r EXCEPT !.pc = "done",
                                 !.result = [ kind         |-> "BacktestResult",
                                              equity_curve |-> r.self.equity_curve,
                                              trades       |-> r.self.trades,
                                              metrics      |-> metrics ]] :
                      metrics \in {calculate_metrics(
                                      r.self.equity_curve, r.self.trades,
                                      benchmark_curve(NoBenchmark,
                                                      r.self.equity_curve))} } : TRUE

\* Variant of OwnState: trades and equity_curve are attributes of the class,
\* shared by all instances.
OwnState_ClassLevel(e, f) ==
    [e EXCEPT !.trades = f.trades, !.equity_curve = f.equity_curve]

\* The attributes of engine e after a step of run on another engine f:
\* every attribute is assigned on the instance in __init__, so the step on f
\* leaves them as they are.
OwnState(e, f) == e

InitTwo ==
    /\ self = Backtester([initial_cash |-> 10000 * Scale,
                          commission |-> 0, slippage |-> 1])
    /\ strategy \in ShortStrategies
    /\ \E n \in 0..MaxShortBars :
          /\ data \in ShortBars(n)
          /\ signals \in [1..n -> ShortSignalValues]
          /\ \E strat \in ShortStrategies, sig \in [1..n -> ShortSignalValues] :
                other = [ self     |-> self,
                          strategy |-> strat,
                          data     |-> data,
                          signals  |-> sig,
                          i        |-> 1,
                          pc       |-> "idle",
                          result   |-> NoResult ]
    /\ i = 1
    /\ pc = "idle"
    /\ result = NoResult
    /\ earlier = NoResult
    /\ benchmark = NoBenchmark

\* A step of the run on the other engine.
OtherStep ==
    /\ other.pc \in {"idle", "loop", "metrics"}
    /\ other' = RunStep(other)
    /\ self' = OwnState(self, other'.self)
    /\ UNCHANGED <<strategy, data, signals, i, pc, result, earlier, benchmark>>

NextTwo == Next \/ OtherStep

SpecTwo == InitTwo /\ [][NextTwo]_vars

-----------------------------------------------------------------------------
(* Specification: tight stops.  A strategy may return stop_loss_pct() = 0, *)
(* a stop at the highest close itself.                                     *)

StopStrategies ==
    { [use_stop |-> FALSE, stop_loss_pct |-> 8],
      [use_stop |-> TRUE,  stop_loss_pct |-> 0],
      [use_stop |-> TRUE,  stop_loss_pct |-> 8] }

InitStops ==
    /\ self = Backtester([initial_cash |-> 10000 * Scale,
                          commission |-> Scale, slippage |-> 1])
    /\ strategy \in StopStrategies
    /\ \E n \in 0..MaxBars :
          /\ data \in SortedBars(n)
          /\ signals \in [1..n -> ShortSignalValues]
    /\ i = 1
    /\ pc = "idle"
    /\ result = NoResult
    /\ earlier = NoResult
    /\ other = NoOther
    /\ benchmark = NoBenchmark

SpecStops == InitStops /\ [][Next]_vars

-----------------------------------------------------------------------------
(* Specification: any input.  run checks neither the length of the signal  *)
(* Series nor the order of the index; these inputs reach the same loop.    *)

\* Closes and signals of the any-input runs.
AnyCloses == {100 * Scale, 110 * Scale}
AnySignalValues == {-1, 0, 1}

\* Index values for n bars: increasing, or with one timestamp repeated, or
\* with two neighbours out of order.
DateSeqs(n) ==
    {[k \in 1..n |-> k]}
    \cup {[k \in 1..n |-> IF k = j THEN j - 1 ELSE k] : j \in 2..n}
    \cup {[k \in 1..n |-> IF k = j THEN j - 1 ELSE IF k = j - 1 THEN j ELSE k]
              : j \in 2..n}

AnyBars(n) ==
    { [k \in 1..n |-> [date |-> d[k], close |-> c[k]]] :
          d \in DateSeqs(n), c \in [1..n -> AnyCloses] }

\* data.index is strictly increasing.
StrictlyIncreasing(d) == \A k \in 1..(Len(d) - 1) : d[k].date < d[k + 1].date

InitAnyInput ==
    /\ self = Backtester([initial_cash |-> 10000 * Scale,
                          commission |-> 0, slippage |-> 1])
    /\ strategy \in Strategies
    /\ \E n \in 0..MaxBars :
          /\ data \in AnyBars(n)
          /\ \E m \in 0..(n + 1) : signals \in [1..m -> AnySignalValues]
    /\ i = 1
    /\ pc = "idle"
    /\ result = NoResult
    /\ earlier = NoResult
    /\ other = NoOther
    /\ benchmark = NoBenchmark

SpecAnyInput == InitAnyInput /\ [][Next]_vars

-----------------------------------------------------------------------------
(* Specification: runs with a benchmark.  The benchmark covers the dates   *)
(* of the data and may begin one bar before them.                          *)

\* Benchmark frames over the dates of n bars of data, or from one date
\* before them.
BenchmarkFrames(n) ==
    UNION { { [ supplied |-> TRUE,
                bars |-> [k \in 1..(n + lead) |->
                             [date |-> k - lead, close |-> c[k]]] ] :
                  c \in [1..(n + lead) -> ShortCloses] } : lead \in {0, 1} }

InitBench ==
    /\ self = Backtester([initial_cash |-> 10000 * Scale,
                          commission |-> Scale, slippage |-> 1])
    /\ strategy \in {s \in ShortStrategies : ~s.use_stop}
    /\ \E n \in 1..MaxShortBars :
          /\ data \in ShortBars(n)
          /\ signals \in [1..n -> ShortSignalValues]
          /\ benchmark \in BenchmarkFrames(n) \cup {NoBenchmark}
    /\ i = 1
    /\ pc = "idle"
    /\ result = NoResult
    /\ earlier = NoResult
    /\ other = NoOther

SpecBench == InitBench /\ [][Next]_vars

-----------------------------------------------------------------------------
(* Specification: a commission that is large against the value of a trade  *)

\* Closes of a cheap stock.
CheapCloses == {10 * Scale, 40 * Scale}

\* Bars with dates 1..n and cheap closes.
CheapBars(n) ==
    { [k \in 1..n |-> [date |-> k, close |-> c[k]]] :
          c \in [1..n -> CheapCloses] }

InitFees ==
    /\ self = Backtester([initial_cash |-> 100 * Scale,
                          commission |-> 50 * Scale, slippage |-> 1])
    /\ strategy \in ShortStrategies
    /\ \E n \in 0..MaxBars :
          /\ data \in CheapBars(n)
          /\ signals \in [1..n -> ShortSignalValues]
    /\ i = 1
    /\ pc = "idle"
    /\ result = NoResult
    /\ earlier = NoResult
    /\ other = NoOther
    /\ benchmark = NoBenchmark

SpecFees == InitFees /\ [][Next]_vars

-----------------------------------------------------------------------------
(* Properties *)

\* The loop is about to process bar i and has a signal for it.
AtBar == pc = "loop" /\ i <= Len(data) /\ i <= Len(signals)

\* Bar i's close falls to the trailing stop: close <= highest * (1 - pct),
\* highest being the highest close since entry, bar i included.
StopHits ==
    /\ self.position > 0
    /\ strategy.use_stop
    /\ data[i].close * 100
           <= Max(self.highest_price, data[i].close) * (100 - strategy.stop_loss_pct)

\* The last trade of a ledger.
LastTrade(e) == e.trades[Len(e.trades)]

\* C1 (state part): the share count is never negative, and shares > 0
\* exactly when a position is open (entry_date is set).
C1_SharesInv ==
    /\ self.position >= 0
    /\ (self.position > 0) <=> (self.entry_date # None)

\* C1 (step part): a BUY signal on a bar where a position is open (and the
\* stop does not fire) changes neither shares, entry price, entry date nor cash.
C1_BuyWhileOpenStep ==
    (AtBar /\ signals[i] = 1 /\ self.position > 0 /\ ~StopHits)
        => /\ self'.position = self.position
           /\ self'.entry_price = self.entry_price
           /\ self'.entry_date = self.entry_date
           /\ self'.cash = self.cash

\* C1: no shorting, no pyramiding, shares > 0 iff a position is open.
C1_NoShortNoPyramid == [](C1_SharesInv) /\ [][C1_BuyWhileOpenStep]_vars

\* C1 witness: bar i-1 carried a BUY while the position entered earlier was
\* open, and the position is still the same one.
C1_Witness ==
    /\ pc = "loop" /\ i >= 3
    /\ signals[i - 1] = 1
    /\ self.position > 0
    /\ self.entry_date < data[i - 1].date
    /\ self.cash >= data[i - 1].close

\* C2: on a bar where the stop fires, the position is closed on that bar
\* with exit_reason stop_loss (exactly one trade appended) and the bar's signal
\* is not acted on: the engine is flat after the bar even on a BUY, and no
\* trade with exit_reason signal appears even on a SELL.
C2_StopStep ==
    (AtBar /\ StopHits)
        => /\ self'.position = 0
           /\ self'.entry_date = None
           /\ Len(self'.trades) = Len(self.trades) + 1
           /\ SubSeq(self'.trades, 1, Len(self.trades)) = self.trades
           /\ LastTrade(self').exit_reason = "stop_loss"
           /\ LastTrade(self').exit_date = data[i].date
           /\ LastTrade(self').entry_date = self.entry_date

\* C2: a stop-loss exit pre-empts the bar's signal.
C2_StopLossPreempts == [][C2_StopStep]_vars

\* C2 witness: bar i-1 closed the position by stop-loss while carrying a BUY
\* that the cash would have paid for.
C2_Witness ==
    /\ pc = "loop" /\ i >= 3
    /\ signals[i - 1] = 1
    /\ self.position = 0
    /\ Len(self.trades) >= 1
    /\ LastTrade(self).exit_reason = "stop_loss"
    /\ LastTrade(self).exit_date = data[i - 1].date
    /\ self.cash >= 2 * data[i - 1].close

\* C3 (state part): after k bars the curve has k points, point j carries bar
\* j's timestamp, and the newest point is cash + shares * close of its bar.
C3_CurveInv ==
    /\ pc = "loop" =>
          /\ Len(self.equity_curve) = i - 1
          /\ i >= 2 => self.equity_curve[i - 1].equity
                           = self.cash + self.position * data[i - 1].close
    /\ pc \in {"metrics", "done"} => Len(self.equity_curve) = Len(data)
    /\ \A j \in 1..Len(self.equity_curve) :
          self.equity_curve[j].date = data[j].date

\* C3 (step part): a bar appends exactly one point, valued after the bar's
\* stop-loss or signal action, and never rewrites an earlier point.
C3_CurveStep ==
    AtBar
        => self'.equity_curve
             = Append(self.equity_curve,
                      [date   |-> data[i].date,
                       equity |-> self'.cash + self'.position * data[i].close])

\* C3: one equity point per bar, in bar order, on every kind of bar.
C3_OnePointPerBar == [](C3_CurveInv) /\ [][C3_CurveStep]_vars

\* C3 witness: the run is complete and one of its bars was a stop-loss bar.
C3_Witness ==
    /\ pc = "done"
    /\ Len(data) >= 3
    /\ Len(self.equity_curve) = Len(data)
    /\ \E k \in 1..Len(self.trades) : self.trades[k].exit_reason = "stop_loss"

\* Number of end_of_data trades in a ledger.
EndOfDataTrades(e) ==
    Cardinality({k \in 1..Len(e.trades) : e.trades[k].exit_reason = "end_of_data"})

\* C4 (step part): leaving the loop with an open position appends exactly one
\* trade, end_of_data, dated and priced at the final bar; leaving it flat
\* appends nothing.
C4_LoopExitStep ==
    (pc = "loop" /\ pc' = "metrics")
        => IF self.position > 0
           THEN /\ Len(self'.trades) = Len(self.trades) + 1
                /\ SubSeq(self'.trades, 1, Len(self.trades)) = self.trades
                /\ LastTrade(self').exit_reason = "end_of_data"
                /\ LastTrade(self').exit_date = data[Len(data)].date
                /\ LastTrade(self').exit_price * Scale
                       = data[Len(data)].close * (Scale - self.slippage)
                /\ LastTrade(self').shares = self.position
                /\ self'.position = 0
           ELSE /\ self'.trades = self.trades
                /\ self'.position = 0

\* C4 (state part): after the loop the engine is flat and the ledger holds
\* at most one end_of_data trade; in the loop it holds none.
C4_AfterRunInv ==
    /\ pc \in {"metrics", "done"} => self.position = 0 /\ EndOfDataTrades(self) <= 1
    /\ pc = "loop" => EndOfDataTrades(self) = 0

\* C4: forced close at the end of the data.
C4_ForcedClose == [](C4_AfterRunInv) /\ [][C4_LoopExitStep]_vars

\* C4 witness: a run ended by the forced close of a position.
C4_Witness ==
    /\ pc = "done"
    /\ Len(self.trades) >= 1
    /\ LastTrade(self).exit_reason = "end_of_data"
    /\ self.position = 0

\* C5 (state part): the ledger has one trade per executed sell (signal,
\* stop_loss and end_of_data), and consecutive trades do not overlap in time.
C5_LedgerInv ==
    /\ Len(self.trades) = self.sells
    /\ \A k \in 1..(Len(self.trades) - 1) :
          self.trades[k].exit_date <= self.trades[k + 1].entry_date

\* C5 (step part): within a run the ledger only grows, by one trade in
\* exactly the steps that sell the open position.
C5_LedgerStep ==
    pc # "idle"
        => IF self.position > 0 /\ self'.position = 0
           THEN /\ Len(self'.trades) = Len(self.trades) + 1
                /\ SubSeq(self'.trades, 1, Len(self.trades)) = self.trades
           ELSE self'.trades = self.trades

\* C5: trades equal sell executions and do not overlap.
C5_LedgerMatchesSells == [](C5_LedgerInv) /\ [][C5_LedgerStep]_vars

\* C5 witness: two trades, the first closed by stop-loss.
C5_Witness ==
    /\ Len(self.trades) >= 2
    /\ self.trades[1].exit_reason = "stop_loss"

\* Every signal of the run is HOLD.
AllHold == \A k \in 1..Len(signals) : signals[k] = 0

\* C6: if every signal is HOLD, no position is opened, no trade is recorded,
\* every equity point equals initial_cash and total_return is 0.
C6_AllHold ==
    AllHold =>
        /\ self.position = 0
        /\ self.trades = <<>>
        /\ self.cash = self.initial_cash
        /\ \A j \in 1..Len(self.equity_curve) :
              self.equity_curve[j].equity = self.initial_cash
        /\ pc = "done" =>
              /\ result.trades = <<>>
              /\ result.metrics.total_return.num = 0
              /\ result.metrics.total_return.den # 0

\* C6 witness: a completed all-HOLD run over moving prices with a stop-loss
\* strategy.
C6_Witness ==
    /\ pc = "done"
    /\ AllHold
    /\ Len(data) >= 2
    /\ data[1].close # data[2].close
    /\ strategy.use_stop

\* C7: when the signal Series and the bars differ in length, run fails
\* before any bar is simulated: no equity point, no trade, no order, no result.
C7_MismatchRejected ==
    Len(signals) # Len(data) =>
        /\ self.equity_curve = <<>>
        /\ self.trades = <<>>
        /\ self.position = 0
        /\ result = NoResult

\* C8: bars whose timestamps are not strictly increasing are rejected; run
\* never returns a result computed from them.
C8_UnsortedRejected ==
    ~StrictlyIncreasing(data) => result = NoResult

\* C9: an empty bar sequence never yields a BacktestResult: the run reaches
\* the metrics with an empty curve and ends in an error.
C9_EmptyInv ==
    Len(data) = 0 =>
        /\ pc # "done"
        /\ result = NoResult
        /\ self.equity_curve = <<>>

\* C9 (step part): computing the metrics of an empty curve is an error.
C9_EmptyStep ==
    (pc = "metrics" /\ Len(self.equity_curve) = 0) => pc' = "error"

\* C9: a run over an empty bar sequence ends in an error, with no result.
C9_EmptyRunFails == [](C9_EmptyInv) /\ [][C9_EmptyStep]_vars

\* C9 witness: the run over no bars has ended in the error.
C9_Witness ==
    /\ pc = "error"
    /\ Len(data) = 0
    /\ result = NoResult

\* C10: a signal other than 1, -1 or 0 is handled like HOLD: the bar raises
\* no error and leaves the engine as a HOLD on that bar would have.
C10_MalformedStep ==
    (AtBar /\ signals[i] \notin {1, -1, 0})
        => /\ pc' = "loop"
           /\ i' = i + 1
           /\ self' = Bar(self, strategy, data[i].date, data[i].close, 0)
           /\ self'.trades # self.trades
                 => LastTrade(self').exit_reason = "stop_loss"
           /\ self.position = 0
                 => self'.position = 0 /\ self'.cash = self.cash

\* C10: malformed signal values are treated as HOLD.
C10_MalformedIsHold == [][C10_MalformedStep]_vars

\* C10 witness: bar i-1 carried a malformed signal while flat with cash for
\* a buy, and the engine is still flat.
C10_Witness ==
    /\ pc = "loop" /\ i >= 2
    /\ signals[i - 1] \notin {1, -1, 0}
    /\ self.position = 0
    /\ self.trades = <<>>
    /\ self.cash >= 2 * data[i - 1].close

\* Bar i's close with the buy-side slippage applied: close * (1 + slippage).
\* The division is exact for the closes explored (C20 checks it).
BuyFillPrice == (data[i].close * (Scale + self.slippage)) \div Scale

\* A BUY bar on which the engine is flat, so that Buy runs, and the shares
\* the cash pays for: floor((cash - commission) / fill_price).
AtBuy == AtBar /\ signals[i] = 1 /\ self.position = 0
AffordableShares == (self.cash - self.commission) \div BuyFillPrice

\* C11: a Buy that can pay for no share is a silent no-op: cash, shares,
\* entry price, entry date, highest price and ledger stay as they are (no
\* commission is charged), the loop goes on, and the bar's equity point is
\* the cash.
C11_NoopBuyStep ==
    (AtBuy /\ AffordableShares <= 0)
        => /\ self'.cash = self.cash
           /\ self'.position = self.position
           /\ self'.entry_price = self.entry_price
           /\ self'.entry_date = self.entry_date
           /\ self'.highest_price = self.highest_price
           /\ self'.trades = self.trades
           /\ pc' = "loop" /\ i' = i + 1
           /\ self'.equity_curve
                = Append(self.equity_curve,
                         [date |-> data[i].date, equity |-> self.cash])

\* C11: an unaffordable Buy changes nothing.
C11_NoopBuy == [][C11_NoopBuyStep]_vars

\* C11 witness: bar i-1 carried a BUY that an engine with a commission could
\* not pay for; the engine is flat and its cash is untouched.
C11_Witness ==
    /\ pc = "loop" /\ i >= 2
    /\ signals[i - 1] = 1
    /\ self.commission > 0
    /\ self.position = 0
    /\ self.trades = <<>>
    /\ self.cash = self.initial_cash
    /\ self.cash - self.commission
           < (data[i - 1].close * (Scale + self.slippage)) \div Scale
    /\ self.equity_curve[i - 1].equity = self.cash

\* C20: a Buy that pays for shares > 0 takes shares * fill + commission from
\* the cash, opens the position with that share count, entry_price = fill
\* and entry_date = the bar's date, and leaves the ledger as it is.
C20_BuyStep ==
    (AtBuy /\ AffordableShares > 0)
        => /\ self'.position = AffordableShares
           /\ self'.entry_price = BuyFillPrice
           /\ self'.entry_price * Scale = data[i].close * (Scale + self.slippage)
           /\ self.cash - self'.cash
                = AffordableShares * BuyFillPrice + self.commission
           /\ self'.entry_date = data[i].date
           /\ self'.trades = self.trades

\* C20: the effect of an executed Buy.
C20_BuyEffect == [][C20_BuyStep]_vars

\* C20 witness: bar i-1 bought, with slippage and a commission, and some
\* cash is left over.
C20_Witness ==
    /\ pc = "loop" /\ i >= 2
    /\ self.position > 0
    /\ self.entry_date = data[i - 1].date
    /\ self.commission > 0 /\ self.slippage > 0
    /\ self.entry_price > data[i - 1].close
    /\ self.cash > 0

\* The signals are one BUY on the first bar, one SELL on a later bar and
\* HOLD on every other bar.
OneBuyOneSell ==
    /\ Len(signals) >= 2
    /\ signals[1] = 1
    /\ \E k \in 2..Len(signals) :
          /\ signals[k] = -1
          /\ \A j \in 2..Len(signals) : j # k => signals[j] = 0

\* The bar of that SELL.
SellBar == CHOOSE k \in 2..Len(signals) : signals[k] = -1

\* The highest close of bars 1..j.
HighestClose(j) ==
    CHOOSE c \in {data[k].close : k \in 1..j} :
        \A k \in 1..j : data[k].close <= c

\* No close of bars 2..SellBar falls to the trailing stop of a position
\* entered on the first bar.
NoStopBeforeSell ==
    strategy.use_stop =>
        \A j \in 2..SellBar :
            data[j].close * 100 > HighestClose(j) * (100 - strategy.stop_loss_pct)

\* What C12 expects of a completed run: exactly one trade, bought at the
\* first close p0 and sold at the SELL bar's close p1, with
\* shares = floor(initial_cash / p0), pnl = shares * (p1 - p0),
\* pnl_pct = (p1 / p0 - 1) * 100, final cash = initial_cash + pnl and
\* total_return = (final cash / initial_cash - 1) * 100.
OneTradeOutcome ==
    LET p0 == data[1].close
        p1 == data[SellBar].close
        n  == self.initial_cash \div p0
    IN  /\ Len(result.trades) = 1
        /\ result.trades[1].shares = n
        /\ result.trades[1].entry_price = p0
        /\ result.trades[1].exit_price = p1
        /\ result.trades[1].pnl = n * (p1 - p0)
        /\ result.trades[1].pnl_pct = Ratio((p1 - p0) * 100, p0)
        /\ self.cash = self.initial_cash + n * (p1 - p0)
        /\ result.metrics.total_return
             = Ratio((self.cash - self.initial_cash) * 100, self.initial_cash)

\* A completed run of the C12 kind: no commission, no slippage, one BUY then
\* one SELL, and no stop-loss exit in between.
FrictionlessRoundTrip ==
    /\ pc = "done"
    /\ self.commission = 0 /\ self.slippage = 0
    /\ OneBuyOneSell
    /\ NoStopBeforeSell

\* C12 as stated: every such run yields the one trade, whatever the cash.
C12_AsStated == FrictionlessRoundTrip => OneTradeOutcome

\* C12 as amended: every such run whose cash pays for at least one share
\* (floor(initial_cash / p0) >= 1) yields the one trade.
C12_RoundTrip ==
    (FrictionlessRoundTrip /\ self.initial_cash \div data[1].close >= 1)
        => OneTradeOutcome

\* C12 witness: 10000 in cash, bought at 100 and sold at 110: 100 shares,
\* pnl 1000, pnl_pct 10, cash 11000, total_return 10.
C12_Witness ==
    /\ FrictionlessRoundTrip
    /\ self.initial_cash = 10000 * Scale
    /\ data[1].close = 100 * Scale
    /\ data[SellBar].close = 110 * Scale
    /\ result.trades[1].shares = 100
    /\ result.trades[1].pnl = 1000 * Scale
    /\ result.trades[1].pnl_pct = Ratio(10 * Scale * 100, 100 * Scale)
    /\ self.cash = 11000 * Scale
    /\ result.metrics.total_return = Ratio(1000 * Scale * 100, 10000 * Scale)

\* The engine with its slippage set to 0 and everything else kept.
ZeroSlippage(e) == [e EXCEPT !.slippage = 0]

\* The trade the zero-slippage engine records for the signal prices of t.
ZeroSlippageTrade(t) ==
    LET z == ZeroSlippage(self)
        held == [z EXCEPT !.position = t.shares,
                          !.entry_price = BuyFill(z, data[t.entry_date].close),
                          !.entry_date = t.entry_date]
    IN  Trade(held, t.exit_date, SellFill(z, data[t.exit_date].close),
              t.exit_reason)

\* a < b for two percentages; both numerators carry the factor 100.
PctLess(a, b) == (a.num \div 100) * b.den < (b.num \div 100) * a.den

\* The trades of the ledger.
Trades == {self.trades[k] : k \in 1..Len(self.trades)}

\* C17: with slippage s > 0, every recorded trade was bought above and sold
\* below the zero-slippage fill (the bar's close) and, when its entry and
\* exit closes are equal, has a strictly lower pnl_pct than the same trade
\* at slippage 0.
C17_SlippageCosts ==
    self.slippage > 0 =>
        \A t \in Trades :
            LET z == ZeroSlippageTrade(t)
            IN  /\ z.entry_price = data[t.entry_date].close
                /\ z.exit_price = data[t.exit_date].close
                /\ t.entry_price > z.entry_price
                /\ t.exit_price < z.exit_price
                /\ data[t.entry_date].close = data[t.exit_date].close
                      => PctLess(t.pnl_pct, z.pnl_pct)

\* C17 witness: with slippage, a trade entered and exited on two bars with
\* the same close, which loses although the price did not move.
C17_Witness ==
    /\ self.slippage > 0
    /\ \E t \in Trades :
          /\ t.entry_date < t.exit_date
          /\ data[t.entry_date].close = data[t.exit_date].close
          /\ t.pnl_pct.num < 0
          /\ ZeroSlippageTrade(t).pnl_pct.num = 0

\* The returned equity curve never falls from one bar to the next.
NonDecreasing ==
    \A k \in 1..(Len(result.equity_curve) - 1) :
        result.equity_curve[k].equity <= result.equity_curve[k + 1].equity

\* C18: the max_drawdown of a completed run is <= 0, no point of the curve
\* lies further below its running peak, and it is 0 only if the curve is
\* non-decreasing throughout.
C18_DrawdownSign ==
    pc = "done" =>
        LET dd == result.metrics.max_drawdown
        IN  /\ dd.den > 0
            /\ dd.num <= 0
            /\ \A k \in 1..Len(result.equity_curve) :
                  LET peak == rolling_max(result.equity_curve, k)
                  IN  ~FracLess(-dd.num, dd.den * 100,
                                peak - result.equity_curve[k].equity, peak)
            /\ dd.num = 0 => NonDecreasing

\* C18 witness: a completed run whose curve rose and then fell, with a
\* strictly negative max_drawdown.
C18_Witness ==
    /\ pc = "done"
    /\ result.metrics.max_drawdown.num < 0
    /\ \E k \in 1..(Len(result.equity_curve) - 1) :
          result.equity_curve[k].equity < result.equity_curve[k + 1].equity
    /\ ~NonDecreasing

\* Every point of the returned equity curve equals the first one.
Flat ==
    \A k \in 1..Len(result.equity_curve) :
        result.equity_curve[k].equity = result.equity_curve[1].equity

\* The sortino half of C19: a curve with no bar-over-bar decrease has
\* sortino_ratio = +infinity.
NoDownDaySortino ==
    (pc = "done" /\ NonDecreasing) => result.metrics.sortino_ratio = "inf"

\* C19: a completed run with a flat equity curve of any length >= 1 has
\* sharpe_ratio = 0, and one with no bar-over-bar decrease has
\* sortino_ratio = +infinity; neither is undefined.
C19_FlatSharpeZero ==
    pc = "done" =>
        /\ Flat => result.metrics.sharpe_ratio = "zero"
        /\ NonDecreasing => result.metrics.sortino_ratio = "inf"

\* Reset gives the state of a newly constructed engine with the same
\* parameters, whatever the engine has been through.
ResetIsFresh ==
    LET r == _reset(self)
    IN  /\ r.cash = self.initial_cash
        /\ r.position = 0
        /\ r.entry_price = 0
        /\ r.entry_date = None
        /\ r.highest_price = 0
        /\ r.trades = <<>>
        /\ r.equity_curve = <<>>
        /\ r = Backtester(Params(self))

\* The result a run returns is the one a fresh engine returns.
ReturnsAsFresh ==
    pc = "done" =>
        LET fresh == FreshRun(Params(self), strategy, data, signals)
        IN  /\ result.trades = fresh.trades
            /\ result.equity_curve = fresh.equity_curve

C13_StateInv == ResetIsFresh /\ ReturnsAsFresh

\* The result of the previous run stays as it was returned for as long as
\* the caller holds it, and a new call starts from the reset state.
C13_HeldStep ==
    /\ (pc \in {"done", "error"} /\ pc' = "idle") => earlier' = result
    /\ ~(pc \in {"done", "error"} /\ pc' = "idle") => earlier' = earlier
    /\ (pc = "idle" /\ pc' = "loop") => self' = Backtester(Params(self))

\* C13: reset restores the state of a freshly constructed engine with the
\* same parameters; a run on a used engine returns the trades and equity
\* curve a fresh engine returns; the result returned by the earlier run is
\* not changed by the later run.
C13_ResetReuse == [](C13_StateInv) /\ [][C13_HeldStep]_vars

\* C13 witness: a second run has returned on an engine whose earlier run
\* recorded a trade, with a different ledger, the earlier result intact.
C13_Witness ==
    /\ pc = "done"
    /\ earlier.kind = "BacktestResult"
    /\ Len(earlier.trades) >= 1
    /\ Len(result.trades) >= 1
    /\ result.trades # earlier.trades
    /\ Len(earlier.equity_curve) # Len(result.equity_curve)

\* The engine after the loop has processed the run whose bars and signals
\* are the first k of this run and nothing else.
PrefixRun(k) ==
    RunBars(_reset(Backtester(Params(self))), strategy,
            SubSeq(data, 1, k), SubSeq(signals, 1, k), 1)

\* After bar i - 1 the engine is the one of the run that stops there.
C15_PrefixInv ==
    (pc = "loop" /\ i > 1) =>
        LET p == PrefixRun(i - 1)
        IN  /\ self.cash = p.cash
            /\ self.position = p.position
            /\ self.entry_price = p.entry_price
            /\ self.highest_price = p.highest_price
            /\ self.equity_curve = p.equity_curve
            /\ self.trades = p.trades

\* Later bars and the end of the run leave the equity points and the trades
\* recorded so far as they are; the loop's trades are not end-of-data ones.
C15_KeepStep ==
    pc # "idle" =>
        /\ SubSeq(self'.equity_curve, 1, Len(self.equity_curve))
              = self.equity_curve
        /\ SubSeq(self'.trades, 1, Len(self.trades)) = self.trades
        /\ pc' = "loop" =>
              \A k \in 1..Len(self'.trades) :
                  /\ self'.trades[k].exit_reason # "end_of_data"
                  /\ self'.trades[k].exit_date <= i

\* C15: after bar k the engine state, the first k equity points and the
\* trades the loop closed at or before bar k are those of the run that
\* stops at bar k, and nothing later rewrites them: two runs with the same
\* parameters that agree on the bars and signals up to k agree on them,
\* whatever comes after k.
C15_NoLookahead == [](C15_PrefixInv) /\ [][C15_KeepStep]_vars

\* C15 witness: two of three bars processed with a position open, the
\* third bar with another close and a signal that will act on it.
C15_Witness ==
    /\ pc = "loop"
    /\ i = 3
    /\ Len(data) = 3
    /\ self.position > 0
    /\ self.cash = PrefixRun(2).cash
    /\ data[3].close # data[2].close
    /\ signals[3] = -1

\* The run is over: the loop has gone through every bar once, in index
\* order, no position is left open, and unless there was no bar at all the
\* result has been returned.
Finished ==
    /\ pc \in {"done", "error"}
    /\ i = Len(data) + 1
    /\ Len(self.equity_curve) = Len(data)
    /\ \A k \in 1..Len(data) : self.equity_curve[k].date = data[k].date
    /\ self.position = 0
    /\ Len(data) > 0 => pc = "done"

\* C16: every run over a finite bar sequence with aligned signals
\* eventually finishes, having processed every bar exactly once in index
\* order, with no open position.
C16_Terminates == <>Finished

\* C16 witness: a finished three-bar run with a stop-loss exit on the way
\* and a SELL order that found no position.
C16_Witness ==
    /\ Finished
    /\ Len(data) = 3
    /\ \E k \in 1..Len(self.trades) : self.trades[k].exit_reason = "stop_loss"
    /\ signals[1] = -1

\* RunStep is the step the actions of run take.
StepsAgree == [][ThisRun' # ThisRun => ThisRun' = RunStep(ThisRun)]_vars

\* Each of the two runs returns what it returns when run alone.
C14_AloneInv ==
    /\ pc = "done" =>
          LET alone == FreshRun(Params(self), strategy, data, signals)
          IN  /\ result.trades = alone.trades
              /\ result.equity_curve = alone.equity_curve
    /\ other.pc = "done" =>
          LET alone == FreshRun(Params(other.self), other.strategy,
                                other.data, other.signals)
          IN  /\ other.result.trades = alone.trades
              /\ other.result.equity_curve = alone.equity_curve

\* A step of one run changes nothing of the other engine.
C14_OwnStep ==
    /\ other' # other => ThisRun' = ThisRun
    /\ ThisRun' # ThisRun => other' = other

SellsOnBar == AtBar /\ self.position > 0 /\ (StopHits \/ signals[i] = -1)
SellsAtEnd == pc = "loop" /\ i > Len(data) /\ self.position > 0

\* The signal price of that sell: the close of the bar, or of the last bar.
SellPrice == IF i <= Len(data) THEN data[i].close ELSE data[Len(data)].close

\* C21 (step): a Sell at signal price p with n shares open adds
\* n * p * (1 - slippage) - commission to cash, appends one trade with
\* exit_price = p * (1 - slippage), the position's entry price, entry date
\* and share count, pnl = (exit_price - entry_price) * n and
\* pnl_pct = (exit_price / entry_price - 1) * 100, and leaves the engine flat.
C21_SellStep ==
    (SellsOnBar \/ SellsAtEnd) =>
        LET n == self.position
            t == LastTrade(self')
        IN  /\ Len(self'.trades) = Len(self.trades) + 1
            /\ SubSeq(self'.trades, 1, Len(self.trades)) = self.trades
            /\ t.exit_price * Scale = SellPrice * (Scale - self.slippage)
            /\ self'.cash - self.cash = n * t.exit_price - self.commission
            /\ t.entry_price = self.entry_price
            /\ t.entry_date = self.entry_date
            /\ t.shares = n
            /\ t.pnl = (t.exit_price - self.entry_price) * n
            /\ t.pnl_pct = Ratio((t.exit_price - self.entry_price) * 100,
                                 self.entry_price)
            /\ self'.position = 0
            /\ self'.entry_price = 0
            /\ self'.entry_date = None
            /\ self'.highest_price = 0

\* C21: the effect of a Sell on cash, the ledger and the position.
C21_SellEffect == [][C21_SellStep]_vars

\* C21 witness: bar i-1 sold on its SELL signal, with commission and
\* slippage charged, a position entered on an earlier bar at another price.
C21_Witness ==
    /\ pc = "loop" /\ i >= 3
    /\ signals[i - 1] = -1
    /\ self.position = 0
    /\ self.commission > 0 /\ self.slippage > 0
    /\ Len(self.trades) >= 1
    /\ LastTrade(self).exit_reason = "signal"
    /\ LastTrade(self).exit_date = data[i - 1].date
    /\ LastTrade(self).exit_price < data[i - 1].close
    /\ LastTrade(self).pnl > 0

\* The highest close of bars a..b.
HighestCloseBetween(a, b) ==
    CHOOSE c \in {data[k].close : k \in a..b} :
        \A k \in a..b : data[k].close <= c

\* C22 (state): while a position entered on bar e is open and bars up to
\* i - 1 are done, highest_price is the highest close of bars e..i-1.
C22_HighestInv ==
    (pc = "loop" /\ self.position > 0) =>
        /\ self.entry_date \in 1..(i - 1)
        /\ self.highest_price = HighestCloseBetween(self.entry_date, i - 1)

\* C22 (step): the stop-loss check of bar i sees the highest close of bars
\* e..i; a Buy at signal price p seeds highest_price with p, not with the
\* fill price, and the position is still open after its entry bar.
C22_HighestStep ==
    /\ (AtBar /\ self.position > 0) =>
          TrackHighest(self, data[i].close).highest_price
              = HighestCloseBetween(self.entry_date, i)
    /\ (AtBuy /\ AffordableShares > 0) =>
          /\ self'.highest_price = data[i].close
          /\ self.slippage > 0 => self'.highest_price < self'.entry_price
          /\ self'.position > 0
          /\ self'.trades = self.trades

\* C22: the trailing stop tracks unadjusted closes from the entry bar on,
\* and no stop-loss check happens on the entry bar.
C22_TrailingHigh == [](C22_HighestInv) /\ [][C22_HighestStep]_vars

\* C22 witness: under a stop at the highest close itself, a position entered
\* on bar 2 is open after that bar, its highest_price the close of bar 2:
\* below the fill price, and below the close of bar 1 before the entry.
C22_Witness ==
    /\ pc = "loop" /\ i = 3
    /\ strategy.use_stop /\ strategy.stop_loss_pct = 0
    /\ self.position > 0
    /\ self.entry_date = 2
    /\ data[1].close > data[2].close
    /\ self.highest_price = data[2].close
    /\ self.entry_price > data[2].close

\* Bar i carries an order that has nothing to act on: HOLD, BUY while a
\* position is open, or SELL while flat; and the stop does not fire.
NoopBar ==
    /\ AtBar
    /\ ~StopHits
    /\ \/ signals[i] = 0
       \/ signals[i] = 1 /\ self.position > 0
       \/ signals[i] = -1 /\ self.position = 0

\* C23 (state): with no open position a sell, for whatever reason, returns
\* the engine as it is, the stop-loss test is false and the end-of-data
\* close does nothing.
C23_FlatInv ==
    (pc = "loop" /\ self.position = 0) =>
        /\ \A reason \in {"signal", "stop_loss", "end_of_data"} :
              \A k \in 1..Len(data) :
                  _sell(self, data[k].date, data[k].close, reason) = self
        /\ \A k \in 1..Len(data) : ~StopTriggered(self, strategy, data[k].close)
        /\ Len(data) > 0 => CloseAtEnd(self, data) = self

\* C23 (step): a no-op bar leaves cash, shares, entry price, entry date and
\* the ledger as they are, appends the bar's equity point, raises
\* highest_price to the close if a position is open, and the loop goes on.
C23_NoopStep ==
    NoopBar =>
        /\ self'.cash = self.cash
        /\ self'.position = self.position
        /\ self'.entry_price = self.entry_price
        /\ self'.entry_date = self.entry_date
        /\ self'.trades = self.trades
        /\ self'.sells = self.sells
        /\ self'.highest_price =
              IF self.position > 0
              THEN Max(self.highest_price, data[i].close)
              ELSE self.highest_price
        /\ self'.equity_curve =
              Append(self.equity_curve,
                     [date   |-> data[i].date,
                      equity |-> self.cash + self.position * data[i].close])
        /\ pc' = "loop"
        /\ i' = i + 1

\* C23: HOLD, BUY while in and SELL while flat are no-ops but for the
\* equity point; selling or checking the stop with no position charges
\* nothing, records nothing and raises nothing.
C23_NoopFrame == [](C23_FlatInv) /\ [][C23_NoopStep]_vars

\* C23 witness: bar i-1 carried a SELL on an engine that has never held a
\* position; with a commission configured, cash is still initial_cash.
C23_Witness ==
    /\ pc = "loop" /\ i >= 2
    /\ signals[i - 1] = -1
    /\ \A k \in 1..(i - 1) : signals[k] # 1
    /\ self.commission > 0
    /\ self.position = 0
    /\ self.trades = <<>>
    /\ self.cash = self.initial_cash
    /\ self.equity_curve[i - 1].equity = self.initial_cash

\* No trade of the returned ledger has a negative pnl_pct.
NoNegativeTrade ==
    \A k \in 1..Len(result.trades) : result.trades[k].pnl_pct.num >= 0

\* Some trade of the returned ledger has a positive pnl_pct.
SomeWinner ==
    \E k \in 1..Len(result.trades) : result.trades[k].pnl_pct.num > 0

\* profit_factor > 0: a quotient with a winner in the numerator.
ProfitFactorPositive ==
    /\ result.metrics.profit_factor.kind = "quotient"
    /\ Len(result.metrics.profit_factor.gross_profit) > 0

\* C24: for a non-empty ledger with no negative-pnl trade the denominator of
\* profit_factor is the small positive epsilon, so with at least one winner
\* profit_factor > 0.
C24_ProfitFactor ==
    (pc = "done" /\ Len(result.trades) > 0 /\ NoNegativeTrade) =>
        /\ result.metrics.profit_factor.floor
        /\ SomeWinner => ProfitFactorPositive

\* The part of C24 that holds: with no trade of pnl_pct <= 0 the denominator
\* is the epsilon and profit_factor > 0; and the quotient is never formed
\* with a zero denominator.
ProfitFactorNoLoser ==
    (pc = "done" /\ Len(result.trades) > 0) =>
        LET pf == result.metrics.profit_factor
        IN  /\ (\A k \in 1..Len(result.trades) : result.trades[k].pnl_pct.num > 0)
                  => pf.floor /\ ProfitFactorPositive
            /\ pf.kind = "quotient" =>
                  \/ pf.floor
                  \/ \E k \in 1..Len(pf.gross_loss) : pf.gross_loss[k].num < 0

\* The benchmark curve run hands to calculate_metrics for the result.
ResultBenchmark == benchmark_curve(benchmark, result.equity_curve)

\* The curve holds the benchmark's bars from the first to the last date of
\* the equity curve, and no other.
Clipped ==
    LET points == ResultBenchmark.points
        first  == result.equity_curve[1].date
        last   == result.equity_curve[Len(result.equity_curve)].date
    IN  /\ \A k \in 1..Len(points) :
              first <= points[k].date /\ points[k].date <= last
        /\ Len(points) = Cardinality({k \in 1..Len(benchmark.bars) :
                              /\ first <= benchmark.bars[k].date
                              /\ benchmark.bars[k].date <= last})

\* The first value of the benchmark curve, value.num / value.den times
\* initial_cash, equals the first value of the equity curve.
SameStart ==
    LET v  == ResultBenchmark.points[1].value
        eq == result.equity_curve[1].equity
    IN  /\ ~FracLess(v.num, v.den, eq, self.initial_cash)
        /\ ~FracLess(eq, self.initial_cash, v.num, v.den)

\* benchmark_return and excess_return of the returned metrics are those of
\* the benchmark curve.
BenchmarkMetrics ==
    /\ result.metrics.benchmark_return =
           benchmark_total_return(ResultBenchmark.points)
    /\ result.metrics.excess_return =
           [ kind       |-> "difference",
             minuend    |-> result.metrics.total_return,
             subtrahend |-> result.metrics.benchmark_return ]

\* C25: with a benchmark, the curve handed to the metrics is clipped to the
\* strategy's first and last dates and starts at the first value of the
\* equity curve, benchmark_return is its total return and excess_return is
\* total_return minus it; with no benchmark both are 0.
C25_Benchmark ==
    pc = "done" =>
        IF benchmark.supplied
        THEN Clipped /\ SameStart /\ BenchmarkMetrics
        ELSE /\ result.metrics.benchmark_return = Ratio(0, 1)
             /\ result.metrics.excess_return.kind = "zero"

\* The part of C25 that holds: the clipping and the two metrics.
BenchmarkClippedMetrics ==
    pc = "done" =>
        IF benchmark.supplied
        THEN Clipped /\ BenchmarkMetrics
        ELSE /\ result.metrics.benchmark_return = Ratio(0, 1)
             /\ result.metrics.excess_return.kind = "zero"

\* The sum of pnl over the first k trades of a ledger.
RECURSIVE SumPnl(_, _)
SumPnl(trades, k) ==
    IF k = 0 THEN 0 ELSE SumPnl(trades, k - 1) + trades[k].pnl

\* C26: after a completed run, final cash = initial_cash + the sum of pnl
\* over the ledger - 2 * commission * the number of trades; with commission
\* 0 the sum of pnl is final cash - initial_cash.
C26_CashIdentity ==
    pc = "done" =>
        /\ result.trades = self.trades
        /\ self.cash = self.initial_cash
                         + SumPnl(self.trades, Len(self.trades))
                         - 2 * self.commission * Len(self.trades)
        /\ self.commission = 0 =>
              SumPnl(self.trades, Len(self.trades))
                  = self.cash - self.initial_cash

\* A completed run with a commission, a winning trade and a losing
\* end-of-data trade.
C26_Witness ==
    /\ pc = "done"
    /\ self.commission > 0
    /\ Len(self.trades) = 2
    /\ self.trades[1].pnl > 0
    /\ self.trades[2].exit_reason = "end_of_data"
    /\ self.trades[2].pnl < 0

\* C27: with initial_cash > 0, commission >= 0, slippage in [0, 1) and
\* positive closes, cash is never negative in a state of a run.
C27_CashNonNegative ==
    (/\ self.initial_cash > 0
     /\ self.commission >= 0
     /\ self.slippage >= 0 /\ self.slippage < Scale
     /\ \A k \in 1..Len(data) : data[k].close > 0)
        => self.cash >= 0

\* The part of C27 that holds: a buy never takes cash below zero.
BuyKeepsCashNonNegative ==
    [][(self.cash >= 0 /\ self'.position > self.position)
          => self'.cash >= 0]_vars

\* The last point of the returned equity curve.
LastEquity == result.equity_curve[Len(result.equity_curve)].equity

\* The returned ledger ends with the forced close of the run.
EndedWithForcedClose ==
    /\ Len(result.trades) > 0
    /\ result.trades[Len(result.trades)].exit_reason = "end_of_data"

\* C28: after run returns, the last point of the equity curve equals the
\* engine's final cash, also when the run ended with a forced end_of_data
\* close.
C28_LastEquityIsCash ==
    pc = "done" => LastEquity = self.cash

\* The part of C28 that holds: the run that ends flat, with no forced close.
LastEquityIsCashWhenFlat ==
    (pc = "done" /\ ~EndedWithForcedClose) => LastEquity = self.cash

\* C29: the first point of the equity curve equals initial_cash for every
\* run, also when a Buy executes on the first bar with slippage or
\* commission.
C29_FirstEquityIsInitialCash ==
    pc = "done" => result.equity_curve[1].equity = self.initial_cash

\* The part of C29 that holds: the first point is initial_cash when no
\* shares are bought on the first bar.
FirstEquityWithoutBuy ==
    (/\ pc = "done"
     /\ \A k \in 1..Len(result.trades) : result.trades[k].entry_date # data[1].date)
        => result.equity_curve[1].equity = self.initial_cash

\* C30: every trade in the ledger has exit_date strictly later than
\* entry_date, whichever of signal, stop_loss or end_of_data closes it.
C30_ExitAfterEntry ==
    \A k \in 1..Len(self.trades) :
        self.trades[k].exit_date > self.trades[k].entry_date

\* The part of C30 that holds: the trades closed by a signal or a stop.
ExitAfterEntryInLoop ==
    \A k \in 1..Len(self.trades) :
        self.trades[k].exit_reason # "end_of_data" =>
            self.trades[k].exit_date > self.trades[k].entry_date

====
